---------------------------- MODULE Spec2Model ----------------------------
(***************************************************************************)
(* A model of khscraper.py: the album page extractor (KHAlbum), the track  *)
(* link selection (KHSong.download), the chunked file transfer with its    *)
(* progress bar (KHFile.download_file) and the command line run (__main__).*)
(*                                                                         *)
(* Strings.  A text whose inner structure the code never looks at (a       *)
(* header label, a cell text, a format name, a line typed at the prompt)   *)
(* is a TLA+ string.  A URL or a path, which the code cuts at '/' and '.'   *)
(* (startswith, os.path.splitext, urljoin), is the sequence of its atoms:  *)
(* "/" and "." are atoms of their own and every maximal run of other       *)
(* characters is one atom, so "https://vgmsite.com/a.mp3" is               *)
(* <<"https:","/","/","vgmsite",".","com","/","a",".","mp3">>.             *)
(***************************************************************************)
EXTENDS Integers, Sequences, FiniteSets, TLC

VARIABLES
    pc,        \* position of the run (or of the operation under study)
    err,       \* the exception that ended the run, "none" while there is none
    args,      \* the parsed command line (argparse namespace)
    page,      \* what the site serves for the album URL
    album,     \* the KHAlbum object: url, headers, songlist rows, footers
    formats,   \* last value returned by get_available_formats
    songs,     \* last value returned by get_songlist (list of KHSong)
    covers,    \* last value returned by get_covers (list of KHCover urls)
    index,     \* loop index of the cover loop / of the track loop
    links,     \* download links found on the detail page of the current song
    fmt,       \* the format KHSong.download was called with
    picked,    \* position in links of the link KHSong.download chose, 0 if none
    xfer,      \* locals of the running download_file call
    pbar,      \* KHFile.pbar: None, or the progress bar of the running transfer
    progress,  \* calls made on the progress bar during the current transfer
    inflight,  \* streaming responses currently open
    net,       \* every HTTP request issued so far, in order
    files,     \* every file completely written so far, in order
    line,      \* the last line typed at the prompt, as typed
    choice,    \* query_yes_no's choice: that line, lowercased
    asked,     \* how many times query_yes_no has asked
    answer     \* what query_yes_no returned: "yes", "no", "none" before

vars == <<pc, err, args, page, album, formats, songs, covers, index, links, fmt,
          picked, xfer, pbar, progress, inflight, net, files, line, choice,
          asked, answer>>

(***************************************************************************)
(* Bounds of the model.                                                    *)
(***************************************************************************)
MaxHeaderLen == 3   \* header cells of a generated track table
MaxRows == 2        \* data rows of a generated track table
MaxLinks == 2       \* download links on a generated detail page
MaxSize == 6        \* bytes of a transferred file (declared and actual)
MaxChunk == 3       \* chunk sizes tried for a transfer
MaxAsk == 2         \* lines the user types at the prompt before giving up
MaxTracks == 3      \* data rows of an album page of a whole run
MaxCovers == 2      \* cover anchors of an album page of a whole run

(***************************************************************************)
(* Python values.                                                          *)
(***************************************************************************)
\* None for the optional integers --start and --end (argparse default=None)
NoneInt == [none |-> TRUE, v |-> 0]

Some(n) == [none |-> FALSE, v |-> n]

\* Python truth value of an optional integer: None and 0 are false
Truthy(o) == (~o.none) /\ (o.v # 0)

\* str.lower() on the texts of the model
LowerTable ==
    [s \in {"MP3", "FLAC", "Mp3", "OGG", "Song Name", "Duration", "Total:",
            "Track A", "Y", "YE", "Ye", "YES", "Yes", "N", "NO", "No", "X"} |->
        CASE s = "MP3" -> "mp3"
          [] s = "Mp3" -> "mp3"
          [] s = "FLAC" -> "flac"
          [] s = "OGG" -> "ogg"
          [] s = "Song Name" -> "song name"
          [] s = "Duration" -> "duration"
          [] s = "Total:" -> "total:"
          [] s = "Track A" -> "track a"
          [] s = "Y" -> "y"
          [] s \in {"YE", "Ye"} -> "ye"
          [] s \in {"YES", "Yes"} -> "yes"
          [] s = "N" -> "n"
          [] s \in {"NO", "No"} -> "no"
          [] s = "X" -> "x"]

lower(s) == IF s \in DOMAIN LowerTable THEN LowerTable[s] ELSE s

\* list.index(x): 1-based position of the first x in s, 0 when x is not in s
\* (Python raises ValueError there)
IndexOf(s, x) ==
    IF \E i \in 1..Len(s) : s[i] = x
    THEN CHOOSE i \in 1..Len(s) : s[i] = x /\ \A j \in 1..(i-1) : s[j] # x
    ELSE 0

\* str.rfind(a) on atoms: position of the last a in s, 0 when there is none
RFind(s, a) ==
    IF \E i \in 1..Len(s) : s[i] = a
    THEN CHOOSE i \in 1..Len(s) : s[i] = a /\ \A j \in (i+1)..Len(s) : s[j] # a
    ELSE 0

\* str.startswith(p) on atoms
StartsWith(s, p) == Len(s) >= Len(p) /\ SubSeq(s, 1, Len(p)) = p

\* list.insert(i, x) for a 0-based i in 0..len(s)
InsertAt(s, i, x) == SubSeq(s, 1, i) \o <<x>> \o SubSeq(s, i + 1, Len(s))

\* all sequences over S of length at most n
SeqsUpTo(S, n) == UNION {[1..k -> S] : k \in 0..n}

(***************************************************************************)
(* URLs.                                                                   *)
(***************************************************************************)
KHOrigin == <<"https:", "/", "/", "downloads", ".", "khinsider", ".", "com">>

VgmOrigin == <<"https:", "/", "/", "vgmsite", ".", "com">>

\* "https://downloads.khinsider.com/game-soundtracks/album/"
AlbumPrefix == KHOrigin \o <<"/", "game-soundtracks", "/", "album", "/">>

\* "https://vgmsite.com/soundtracks/"
CoverPrefix == VgmOrigin \o <<"/", "soundtracks", "/">>

\* re.compile(r'^https://vgmsite.com') on an href
IsVgmHref(href) == StartsWith(href, VgmOrigin)

\* urljoin(base, href) for an absolute href, a root-relative href ("/a/b")
\* and a relative href ("b"); hrefs carry no "." or ".." segment and are
\* already percent-quoted, so requote_uri leaves them as they are
urljoin(base, href) ==
    IF StartsWith(href, <<"https:", "/", "/">>) THEN href
    ELSE IF href = <<>> THEN base
    ELSE IF href[1] = "/"
         THEN LET rest == SubSeq(base, 4, Len(base))
                  cut == IndexOf(rest, "/")
              IN  (IF cut = 0 THEN base ELSE SubSeq(base, 1, 3 + cut - 1)) \o href
    ELSE SubSeq(base, 1, RFind(base, "/")) \o href

\* os.path.splitext(p)[1][1:]: the atoms after the last "." of the last path
\* component, unless that component has nothing but dots before it
ExtAtoms(p) ==
    LET sep == RFind(p, "/")
        dot == RFind(p, ".")
    IN  IF dot > sep /\ \E i \in (sep + 1)..(dot - 1) : p[i] # "."
        THEN SubSeq(p, dot + 1, Len(p))
        ELSE <<>>

\* the text of at most one atom
TextOf(atoms) == IF atoms = <<>> THEN "" ELSE atoms[1]

splitext_ext(p) == TextOf(ExtAtoms(p))


(***************************************************************************)
(* The album page.  A page is what BeautifulSoup finds in it: whether the  *)
(* 'pageContent' element and the 'songlist' table exist, the album name     *)
(* (h2), the rows (tr) of the table in document order, and the hrefs of    *)
(* the anchors of the content that are outside the table.  A row has an    *)
(* id, the texts of its th cells, the texts of its td cells and the hrefs   *)
(* of its anchors.                                                          *)
(***************************************************************************)
Row(id, th, td, a) == [id |-> id, th |-> th, td |-> td, a |-> a]

Page(content, table, trs, anchors) ==
    [content |-> content, table |-> table, name |-> "Album", trs |-> trs,
     anchors |-> anchors]

NoPage == Page(FALSE, FALSE, <<>>, <<>>)

NoAlbum == [url |-> <<>>, name |-> "", headers |-> <<>>, songlist |-> <<>>,
            footers |-> <<>>, anchors |-> <<>>]

\* songlist.find('tr', id=...): the first row with that id, 0 when none
FindRow(trs, id) ==
    IF \E i \in 1..Len(trs) : trs[i].id = id
    THEN CHOOSE i \in 1..Len(trs) :
            trs[i].id = id /\ \A j \in 1..(i-1) : trs[j].id # id
    ELSE 0

\* KHAlbum.__get_songlist_content on the content of a page: the headers with
\* the synthetic 'Duration' after 'Song Name', the rows, the footers
get_songlist_content(pg) ==
    LET h == FindRow(pg.trs, "songlist_header")
        f == FindRow(pg.trs, "songlist_footer")
    IN  IF ~pg.table THEN [err |-> "NoSonglist"]
        ELSE IF h = 0 THEN [err |-> "AttributeError"]
        ELSE IF IndexOf(pg.trs[h].th, "Song Name") = 0 THEN [err |-> "ValueError"]
        ELSE IF f = 0 THEN [err |-> "AttributeError"]
        ELSE [err |-> "none",
              headers |-> InsertAt(pg.trs[h].th,
                                   IndexOf(pg.trs[h].th, "Song Name"), "Duration"),
              songlist |-> pg.trs,
              footers |-> pg.trs[f].th]

\* list slice s[a:b] for 0-based a >= 0 and a b that may be negative
Slice(s, a, b) ==
    LET hi == IF b < 0 THEN Len(s) + b ELSE b
    IN  IF hi <= a THEN <<>> ELSE SubSeq(s, a + 1, hi)

\* get_available_formats with the slice running to the end of the headers
get_available_formats_mut_to_end(headers) ==
    LET f == Slice(headers, IndexOf(headers, "Duration"), Len(headers))
    IN  [i \in 1..Len(f) |-> lower(f[i])]

\* KHAlbum.get_available_formats: headers[headers.index('Duration')+1:-1],
\* lowercased
get_available_formats(headers) ==
    LET f == Slice(headers, IndexOf(headers, "Duration"), -1)
    IN  [i \in 1..Len(f) |-> lower(f[i])]

\* OrderedDict: a sequence of <<key, value>>; d[k] = v keeps the place of a
\* key that is already there
DictSet(d, k, v) ==
    IF \E i \in 1..Len(d) : d[i][1] = k
    THEN [i \in 1..Len(d) |-> IF d[i][1] = k THEN <<k, v>> ELSE d[i]]
    ELSE Append(d, <<k, v>>)

DictHas(d, k) == \E i \in 1..Len(d) : d[i][1] = k

DictGet(d, k) == d[CHOOSE i \in 1..Len(d) : d[i][1] = k][2]

\* the attribute loop of get_songlist (lines 418-421) from header position i
\* on; "IndexError" when a non-empty header has no cell
RECURSIVE BuildAttr(_, _, _, _)
BuildAttr(headers, cells, i, d) ==
    IF i > Len(headers) THEN [err |-> "none", attr |-> d]
    ELSE IF headers[i] = "" THEN BuildAttr(headers, cells, i + 1, d)
    ELSE IF i > Len(cells) THEN [err |-> "IndexError"]
    ELSE BuildAttr(headers, cells, i + 1, DictSet(d, lower(headers[i]), cells[i]))

\* one turn of the row loop of get_songlist (lines 415-423)
SongOfRow(row, headers, base) ==
    IF row.a = <<>> THEN [err |-> "TypeError"]
    ELSE LET built == BuildAttr(headers, row.td, 1, <<>>)
             url == urljoin(base, row.a[1])
         IN  IF built.err # "none" THEN [err |-> built.err]
             ELSE IF ~StartsWith(url, AlbumPrefix) THEN [err |-> "InvalidSongURL"]
             ELSE [err |-> "none", song |-> [url |-> url, attr |-> built.attr]]

\* the row loop of get_songlist (lines 414-423): the songs of the rows, in
\* order, or the error of the first row that raises
RECURSIVE SongsOfRows(_, _, _, _)
SongsOfRows(rows, headers, base, acc) ==
    IF rows = <<>> THEN [err |-> "none", songs |-> acc]
    ELSE LET s == SongOfRow(Head(rows), headers, base)
         IN  IF s.err # "none" THEN [err |-> s.err, songs |-> <<>>]
             ELSE SongsOfRows(Tail(rows), headers, base, Append(acc, s.song))

\* get_songlist with the slice [1:] in place of [1:-1]
get_songlist_mut_all_rows(a) ==
    SongsOfRows(Slice(a.songlist, 1, Len(a.songlist)), a.headers, a.url, <<>>)

\* KHAlbum.get_songlist: one KHSong per row of self.songlist('tr')[1:-1]
get_songlist(a) ==
    SongsOfRows(Slice(a.songlist, 1, -1), a.headers, a.url, <<>>)

\* album.find_all('a', href=...): the anchors of the content, the table's too
RECURSIVE RowAnchors(_)
RowAnchors(trs) == IF trs = <<>> THEN <<>> ELSE Head(trs).a \o RowAnchors(Tail(trs))

SelectSeqVgm(hrefs) == SelectSeq(hrefs, IsVgmHref)

\* KHAlbum.get_covers: one KHCover per anchor to vgmsite; KHCover.__init__
\* raises unless the url starts with CoverPrefix
get_covers(a) ==
    LET found == SelectSeqVgm(a.anchors \o RowAnchors(a.songlist))
    IN  IF \E i \in 1..Len(found) : ~StartsWith(found[i], CoverPrefix)
        THEN [err |-> "InvalidCoverURL", covers |-> <<>>]
        ELSE [err |-> "none", covers |-> found]


(***************************************************************************)
(* Pages the extractor is run on.                                          *)
(***************************************************************************)
\* an album URL under the catalog prefix
AlbumURL == AlbumPrefix \o <<"x">>

Labels == {"", "Song Name", "Duration", "MP3", "FLAC"}

Footer == <<"Total:", "1:00:00", "32MB", "100MB">>

\* the text of cell i of data row k: no two cells of a table share a text
CellText(k, i) == "r" \o ToString(k) \o "c" \o ToString(i)

\* the anchor of data row k: a link under the album, a link elsewhere on the
\* site, or no anchor at all
HrefKinds == {"in", "out", "none"}

RowAnchor(kind, k) ==
    CASE kind = "in" -> << <<"x", "/", "t" \o ToString(k)>> >>
      [] kind = "out" -> << <<"/", "forums", "/", "t" \o ToString(k)>> >>
      [] OTHER -> <<>>

DataRow(k, ncells, kind) ==
    Row("", <<>>, [i \in 1..ncells |-> CellText(k, i)], RowAnchor(kind, k))

\* header row, the data rows, footer row
Table(header, rows) ==
    <<Row("songlist_header", header, <<>>, <<>>)>> \o rows
        \o <<Row("songlist_footer", Footer, <<>>, <<>>)>>

GenPages ==
    {Page(TRUE, TRUE,
          Table(h, [k \in 1..Len(kinds) |-> DataRow(k, Len(h) + more, kinds[k])]),
          <<>>) :
        h \in SeqsUpTo(Labels, MaxHeaderLen),
        kinds \in SeqsUpTo(HrefKinds, MaxRows),
        more \in {0, 1}}

\* the end-to-end scenario of the specification: four header cells, four
\* cells in the data row
ScenarioPage ==
    Page(TRUE, TRUE,
         Table(<<"#", "Song Name", "MP3", "FLAC">>,
               <<Row("", <<>>, <<"1", "Track A", "3.2MB", "10MB">>,
                     << <<"/", "game-soundtracks", "/", "album", "/", "track-a">> >>)>>),
         <<>>)

\* the same album in the layout of the site: a duration cell after the name
\* and a trailing column without label
LayoutPage ==
    Page(TRUE, TRUE,
         Table(<<"#", "Song Name", "MP3", "FLAC", "">>,
               <<Row("", <<>>, <<"1", "Track A", "1:00", "3.2MB", "10MB", "">>,
                     << <<"/", "game-soundtracks", "/", "album", "/", "track-a">> >>)>>),
         <<>>)

ExtractPages == GenPages \cup {ScenarioPage, LayoutPage}

(***************************************************************************)
(* Values of the variables an operation under study does not use.          *)
(***************************************************************************)
NoArgs == [url |-> <<>>, output |-> ".", format |-> "mp3", chunk |-> 1,
           start |-> NoneInt, end |-> NoneInt, covers |-> FALSE]

NoXfer == [active |-> FALSE, kind |-> "", pos |-> 0, url |-> <<>>,
           file_size |-> 0, chunk_size |-> 0, body |-> 0, actual |-> 0,
           seen |-> 0, index |-> 0]

NoBar == [none |-> TRUE, max_value |-> 0, value |-> 0, finished |-> FALSE]

\* an HTTP request: the album page, cover pos, the detail page of track pos,
\* the file of track pos ("song"), or the file of a lone download_file call
Request(kind, pos) == [kind |-> kind, pos |-> pos]

NoRun ==
    /\ args = NoArgs /\ covers = <<>> /\ index = 0
    /\ line = "" /\ choice = "" /\ asked = 0 /\ answer = "none"

NoSong == links = <<>> /\ fmt = "" /\ picked = 0

NoTransfer ==
    /\ xfer = NoXfer /\ pbar = NoBar /\ progress = <<>> /\ inflight = {}
    /\ files = <<>>

runVars == <<args, covers, index, line, choice, asked, answer>>

songVars == <<links, fmt, picked>>

xferVars == <<xfer, pbar, progress, inflight, files>>

(***************************************************************************)
(* SpecExtract: the extractor alone, on every page of ExtractPages.        *)
(***************************************************************************)
InitExtract ==
    /\ pc = "x_content"
    /\ page \in ExtractPages
    /\ album = [NoAlbum EXCEPT !.url = AlbumURL]
    /\ err = "none" /\ formats = <<>> /\ songs = <<>> /\ net = <<>>
    /\ NoRun /\ NoSong /\ NoTransfer

\* KHAlbum.__get_songlist_content
ExtractContent ==
    /\ pc = "x_content"
    /\ LET c == get_songlist_content(page)
       IN  IF c.err # "none"
           THEN /\ err' = c.err
                /\ pc' = "x_error"
                /\ album' = album
           ELSE /\ album' = [album EXCEPT !.headers = c.headers,
                                          !.songlist = c.songlist,
                                          !.footers = c.footers,
                                          !.name = page.name,
                                          !.anchors = page.anchors]
                /\ pc' = "x_formats"
                /\ err' = err
    /\ UNCHANGED <<page, formats, songs, net>>
    /\ UNCHANGED <<runVars, songVars, xferVars>>

\* KHAlbum.get_available_formats
ExtractFormats ==
    /\ pc = "x_formats"
    /\ formats' = get_available_formats(album.headers)
    /\ pc' = "x_songlist"
    /\ UNCHANGED <<err, page, album, songs, net>>
    /\ UNCHANGED <<runVars, songVars, xferVars>>

\* KHAlbum.get_songlist
ExtractSonglist ==
    /\ pc = "x_songlist"
    /\ LET r == get_songlist(album)
       IN  /\ songs' = r.songs
           /\ err' = r.err
           /\ pc' = IF r.err = "none" THEN "x_done" ELSE "x_error"
    /\ UNCHANGED <<page, album, formats, net>>
    /\ UNCHANGED <<runVars, songVars, xferVars>>

NextExtract == ExtractContent \/ ExtractFormats \/ ExtractSonglist

SpecExtract == InitExtract /\ [][NextExtract]_vars


(***************************************************************************)
(* Claims about the extractor (checked under SpecExtract).                 *)
(***************************************************************************)
\* get_available_formats has returned (formats holds its value)
FormatsTaken ==
    \/ pc \in {"x_songlist", "x_done"}
    \/ pc = "x_error" /\ album.headers # <<>>

\* get_songlist has returned or raised
SonglistTaken ==
    \/ pc = "x_done"
    \/ pc = "x_error" /\ album.headers # <<>>

\* the data rows of the table served: the rows between header and footer
NData == Len(page.trs) - 2

DataRowAt(k) == page.trs[k + 1]

\* the header positions that carry a label
Labelled(h) == {i \in 1..Len(h) : h[i] # ""}

\* the last header position with the label of position i, ignoring case
LastWithLabel(h, i) ==
    CHOOSE j \in Labelled(h) :
        /\ lower(h[j]) = lower(h[i])
        /\ \A m \in Labelled(h) : lower(h[m]) = lower(h[i]) => m <= j

\* every data row has an anchor and one cell per post-synthesis header
RowsWellFormed ==
    \A k \in 1..NData :
        /\ DataRowAt(k).a # <<>>
        /\ Len(DataRowAt(k).td) = Len(album.headers)

\* every row anchor resolves to a URL under the catalog prefix
RowsUnderPrefix ==
    \A k \in 1..NData :
        DataRowAt(k).a # <<>> =>
            StartsWith(urljoin(album.url, DataRowAt(k).a[1]), AlbumPrefix)

\* C6 (amended): the available formats are the labels of the post-synthesis
\* header strictly between the first 'Duration' and the last header cell,
\* lowercased, in header order.  On the scenario header
\* ["#","Song Name","MP3","FLAC"] they are ["mp3"] and the four-cell data row
\* cannot be extracted; in the site's layout (a duration cell, a trailing
\* column without label) the record has "song name" = "Track A" and the
\* formats are ["mp3","flac"].
C6_FormatsBetweenDurationAndLast ==
    FormatsTaken =>
        LET h == album.headers
            d == IndexOf(h, "Duration")
        IN  /\ h[IndexOf(page.trs[1].th, "Song Name") + 1] = "Duration"
            /\ d >= 1
            /\ Len(h) = Len(page.trs[1].th) + 1
            /\ Len(formats) = (IF Len(h) - 1 > d THEN Len(h) - 1 - d ELSE 0)
            /\ \A j \in 1..Len(formats) : formats[j] = lower(h[d + j])
            /\ (page = ScenarioPage => formats = <<"mp3">>)
            /\ (page = ScenarioPage /\ SonglistTaken => err = "IndexError")
            /\ (page = LayoutPage => formats = <<"mp3", "flac">>)
            /\ (page = LayoutPage /\ SonglistTaken =>
                    /\ pc = "x_done"
                    /\ Len(songs) = 1
                    /\ DictGet(songs[1].attr, "song name") = "Track A")

\* C6 witness: the site's layout extracted, with two formats offered
C6_Witness ==
    /\ pc = "x_done"
    /\ page = LayoutPage
    /\ formats = <<"mp3", "flac">>

\* C6 (as stated): the formats are all of the labels after 'Duration', and
\* the scenario page extracts to "Track A" with formats ["mp3","flac"]
C6_Original ==
    SonglistTaken =>
        LET h == album.headers
            d == IndexOf(h, "Duration")
        IN  /\ (page = ScenarioPage =>
                    /\ pc = "x_done"
                    /\ Len(songs) = 1
                    /\ DictGet(songs[1].attr, "song name") = "Track A"
                    /\ formats = <<"mp3", "flac">>)
            /\ (page = ScenarioPage =>
                    formats = [j \in 1..(Len(h) - d) |-> lower(h[d + j])])

\* C7 (amended): with N data rows between header and footer, each with an
\* anchor that resolves under the catalog prefix and one cell per
\* post-synthesis header, get_songlist returns N records in row order; the
\* k-th has one attribute per distinct lowercased non-empty label, valued by
\* the k-th row's cell at the last header position with that label; N = 0
\* gives the empty list and no error.
C7_SonglistFromRows ==
    (SonglistTaken /\ RowsWellFormed /\ RowsUnderPrefix) =>
        LET h == album.headers IN
        /\ pc = "x_done"
        /\ err = "none"
        /\ Len(songs) = NData
        /\ \A k \in 1..NData :
            /\ songs[k].url = urljoin(album.url, DataRowAt(k).a[1])
            /\ Len(songs[k].attr) = Cardinality({lower(h[i]) : i \in Labelled(h)})
            /\ \A i \in Labelled(h) :
                /\ DictHas(songs[k].attr, lower(h[i]))
                /\ DictGet(songs[k].attr, lower(h[i]))
                       = DataRowAt(k).td[LastWithLabel(h, i)]

\* C7 witness: two rows extracted from a table with a repeated label
C7_Witness ==
    /\ pc = "x_done"
    /\ NData = 2
    /\ Len(songs) = 2
    /\ RowsWellFormed
    /\ \E i, j \in Labelled(album.headers) :
            i < j /\ album.headers[i] = album.headers[j]

\* C7 (as stated): N records, one attribute per non-empty header, each
\* valued by the cell at the same position
C7_Original ==
    (SonglistTaken /\ RowsWellFormed) =>
        LET h == album.headers IN
        /\ pc = "x_done"
        /\ Len(songs) = NData
        /\ \A k \in 1..NData :
            /\ Len(songs[k].attr) = Cardinality(Labelled(h))
            /\ \A i \in Labelled(h) :
                /\ DictHas(songs[k].attr, lower(h[i]))
                /\ DictGet(songs[k].attr, lower(h[i])) = DataRowAt(k).td[i]


(***************************************************************************)
(* KHSong.download: the choice of the download link.                       *)
(***************************************************************************)
\* the loop of lines 283-290: the first link whose extension is fmt, 0 when
\* the loop ends without one (line 292 raises)
PickLink(ls, f) ==
    IF \E i \in 1..Len(ls) : splitext_ext(ls[i]) = f
    THEN CHOOSE i \in 1..Len(ls) :
            /\ splitext_ext(ls[i]) = f
            /\ \A j \in 1..(i-1) : splitext_ext(ls[j]) # f
    ELSE 0

\* hrefs of the anchors of a detail page that point to vgmsite:
\* "/a.mp3", "/b.flac", "/a.MP3", "/a", "/a.", "/c.d/e" and the bare origin
LinkTails ==
    { <<"/", "a", ".", "mp3">>, <<"/", "b", ".", "flac">>,
      <<"/", "a", ".", "MP3">>, <<"/", "a">>,
      <<"/", "a", ".">>, <<"/", "c", ".", "d", "/", "e">>, <<>> }

LinkSet == {VgmOrigin \o t : t \in LinkTails}

FormatNames == {"mp3", "flac", "ogg", "MP3", "com"}

\* KHSong.__get_download_links keeps the hrefs that start with the origin
get_download_links(hrefs) == SelectSeqVgm(hrefs)

InitLinks ==
    /\ pc = "l_pick"
    /\ links \in SeqsUpTo(LinkSet, MaxLinks)
    /\ fmt \in FormatNames
    /\ picked = 0
    /\ page = NoPage /\ album = NoAlbum
    /\ err = "none" /\ formats = <<>> /\ songs = <<>> /\ net = <<>>
    /\ NoRun /\ NoTransfer

\* lines 283-292 on the links of the detail page
SongPick ==
    /\ pc = "l_pick"
    /\ picked' = PickLink(get_download_links(links), fmt)
    /\ err' = IF picked' = 0 THEN "FormatNotFound" ELSE "none"
    /\ pc' = IF picked' = 0 THEN "l_error" ELSE "l_done"
    /\ UNCHANGED <<page, album, formats, songs, net, links, fmt>>
    /\ UNCHANGED <<runVars, xferVars>>

NextLinks == SongPick

SpecLinks == InitLinks /\ [][NextLinks]_vars

\* the substring after the last '.' of a link, as atoms
AfterLastDot(l) ==
    IF RFind(l, ".") = 0 THEN <<>> ELSE SubSeq(l, RFind(l, ".") + 1, Len(l))

\* that substring equals the format, ignoring case
MatchesIgnoringCase(l, f) ==
    /\ RFind(l, ".") # 0
    /\ Len(AfterLastDot(l)) = 1
    /\ lower(AfterLastDot(l)[1]) = lower(f)

\* C4 (as stated): the link chosen has the requested extension ignoring
\* case, and the choice fails exactly when no link has it ignoring case
C4_Original ==
    pc \in {"l_done", "l_error"} =>
        /\ (pc = "l_done" => MatchesIgnoringCase(links[picked], fmt))
        /\ (pc = "l_error" <=>
                \A i \in 1..Len(links) : ~MatchesIgnoringCase(links[i], fmt))

(***************************************************************************)
(* KHFile.download_file and its progress bar.                              *)
(***************************************************************************)
\* __update_progress_bar with <= in place of < at line 140
update_progress_bar_mut_le(b, count, block_size, total_size) ==
    LET bar == IF b.none
               THEN [none |-> FALSE, max_value |-> total_size, value |-> 0,
                     finished |-> FALSE]
               ELSE b
        downloaded == count * block_size
    IN  IF downloaded <= total_size
        THEN [bar |-> [bar EXCEPT !.value = downloaded],
              call |-> [op |-> "update", value |-> downloaded,
                        downloaded |-> downloaded]]
        ELSE [bar |-> [bar EXCEPT !.value = bar.max_value, !.finished = TRUE],
              call |-> [op |-> "finish", value |-> bar.max_value,
                        downloaded |-> downloaded]]

\* KHFile.__update_progress_bar(count, block_size, total_size) on the bar b:
\* the bar afterwards and the call made on it: update(downloaded) shows
\* downloaded bytes, finish() shows max_value
update_progress_bar(b, count, block_size, total_size) ==
    LET bar == IF b.none
               THEN [none |-> FALSE, max_value |-> total_size, value |-> 0,
                     finished |-> FALSE]
               ELSE b
        downloaded == count * block_size
    IN  IF downloaded < total_size
        THEN [bar |-> [bar EXCEPT !.value = downloaded],
              call |-> [op |-> "update", value |-> downloaded,
                        downloaded |-> downloaded]]
        ELSE [bar |-> [bar EXCEPT !.value = bar.max_value, !.finished = TRUE],
              call |-> [op |-> "finish", value |-> bar.max_value,
                        downloaded |-> downloaded]]

\* the state of download_file after reqget, the Content-Length header and
\* open(): declared size, chunk size, bytes of the body still to come,
\* chunks seen by enumerate, and the loop variable index
Transfer(kind, pos, url, size, chunk, body) ==
    [active |-> TRUE, kind |-> kind, pos |-> pos, url |-> url,
     file_size |-> size, chunk_size |-> chunk, body |-> body, actual |-> body,
     seen |-> 0, index |-> 0]

Min(a, b) == IF a < b THEN a ELSE b

\* one turn of the loop of lines 163-166: a chunk is written and reported
DownloadChunk ==
    /\ pc = "t_chunk"
    /\ xfer.body > 0
    /\ LET u == update_progress_bar(pbar, xfer.seen, xfer.chunk_size, xfer.file_size)
       IN  /\ pbar' = u.bar
           /\ progress' = Append(progress, u.call)
    /\ xfer' = [xfer EXCEPT !.body = @ - Min(xfer.chunk_size, @),
                            !.index = xfer.seen,
                            !.seen = @ + 1]
    /\ UNCHANGED <<pc, err, page, album, formats, songs, net, inflight, files>>
    /\ UNCHANGED <<runVars, songVars>>

\* lines 168-175: the body is exhausted; the last report, the response and
\* the file are closed, the bar is reset, and download_file returns
DownloadFinish ==
    /\ pc = "t_chunk"
    /\ xfer.body = 0
    /\ LET u == update_progress_bar(pbar, xfer.index + 1, xfer.chunk_size,
                                    xfer.file_size)
       IN  progress' = Append(progress, u.call)
    /\ pbar' = NoBar
    /\ xfer' = [xfer EXCEPT !.active = FALSE]
    /\ inflight' = inflight \ {Request(xfer.kind, xfer.pos)}
    /\ files' = Append(files, Request(xfer.kind, xfer.pos))
    /\ pc' = CASE xfer.kind = "cover" -> "covers"
               [] xfer.kind = "song" -> "tracks"
               [] OTHER -> "t_done"
    /\ index' = IF xfer.kind \in {"cover", "song"} THEN index + 1 ELSE index
    /\ UNCHANGED <<err, page, album, formats, songs, net>>
    /\ UNCHANGED <<args, covers, line, choice, asked, answer, songVars>>

FileURL == VgmOrigin \o <<"/", "a", ".", "mp3">>

InitProgress ==
    /\ pc = "t_chunk"
    /\ \E size \in 0..MaxSize, chunk \in 1..MaxChunk, body \in 0..MaxSize :
            xfer = Transfer("file", 0, FileURL, size, chunk, body)
    /\ pbar = NoBar
    /\ progress = <<>>
    /\ inflight = {Request("file", 0)}
    /\ net = <<Request("file", 0)>>
    /\ files = <<>>
    /\ page = NoPage /\ album = NoAlbum
    /\ err = "none" /\ formats = <<>> /\ songs = <<>>
    /\ NoRun /\ NoSong

NextProgress == DownloadChunk \/ DownloadFinish

SpecProgress == InitProgress /\ [][NextProgress]_vars

\* chunks of size c that a body of b bytes comes in
ChunksOf(b, c) == (b + c - 1) \div c

\* C5: when the body has the declared size S, the progress bar is called
\* once after each chunk and once at the end; the byte counts reported never
\* decrease; the last call, and no earlier one, finishes the bar, at S.
C5_ProgressAccounting ==
    (pc \in {"t_chunk", "t_done"} /\ xfer.kind = "file"
        /\ xfer.actual = xfer.file_size) =>
        /\ \A i \in 1..Len(progress) : \A j \in i..Len(progress) :
                /\ progress[i].value <= progress[j].value
                /\ progress[i].downloaded <= progress[j].downloaded
        /\ (pc = "t_chunk" =>
                /\ Len(progress) = xfer.seen
                /\ xfer.seen =
                       ChunksOf(xfer.actual - xfer.body, xfer.chunk_size)
                /\ \A i \in 1..Len(progress) : progress[i].op = "update")
        /\ (pc = "t_done" =>
                /\ Len(progress) = ChunksOf(xfer.file_size, xfer.chunk_size) + 1
                /\ progress[Len(progress)].op = "finish"
                /\ progress[Len(progress)].value = xfer.file_size
                /\ \A i \in 1..(Len(progress) - 1) :
                       progress[i].op = "update")

\* C5 witness: a file of several chunks, the last one short, fully written
C5_Witness ==
    /\ pc = "t_done"
    /\ xfer.actual = xfer.file_size
    /\ xfer.file_size = 5
    /\ xfer.chunk_size = 2
    /\ Len(progress) = 4


(***************************************************************************)
(* Spec: a whole run of the program (__main__).                            *)
(***************************************************************************)
\* the album pages of the site: n tracks and c covers in the layout the
\* code expects
TrackRow(k) ==
    Row("", <<>>, <<ToString(k), "Track " \o ToString(k), "1:00", "3MB", "10MB", "">>,
        << <<"x", "/", "t" \o ToString(k)>> >>)

CoverHref(i) == CoverPrefix \o <<"x", "/", "c" \o ToString(i), ".", "jpg">>

SitePage(n, c) ==
    Page(TRUE, TRUE,
         Table(<<"#", "Song Name", "MP3", "FLAC", "">>, [k \in 1..n |-> TrackRow(k)]),
         [i \in 1..c |-> CoverHref(i)])

\* pages the run cannot use: no content, no song list, a cover anchor
\* outside "soundtracks/", and the four-cell scenario page
BrokenPages ==
    { NoPage,
      Page(TRUE, FALSE, <<>>, <<>>),
      [SitePage(1, 0) EXCEPT !.anchors = <<VgmOrigin \o <<"/", "img", "/", "c">> >>],
      ScenarioPage }

SitePages ==
    {SitePage(n, c) : n \in 0..MaxTracks, c \in 0..MaxCovers} \cup BrokenPages

\* not under the catalog prefix: the album path without its final '/', and
\* another host
BadURLs ==
    { KHOrigin \o <<"/", "game-soundtracks", "/", "album">>,
      VgmOrigin \o <<"/", "soundtracks", "/", "x">> }

\* os.path.isdir(output)
isdir(output) == output = "."

OptInts == {NoneInt} \cup {Some(v) : v \in (0 - 1)..(MaxTracks + 1)}

ArgSets ==
    [url : {AlbumURL} \cup BadURLs,
     output : {".", "missing"},
     format : {"mp3", "FLAC", "ogg"},
     chunk : {2},
     start : OptInts,
     end : OptInts,
     covers : BOOLEAN]

\* hrefs of the anchors of a track's detail page
DetailPages ==
    { <<VgmOrigin \o <<"/", "a", ".", "mp3">>, VgmOrigin \o <<"/", "b", ".", "flac">> >>,
      <<KHOrigin \o <<"/", "forums">>, VgmOrigin \o <<"/", "a", ".", "MP3">> >>,
      <<>> }

\* Content-Length of a served file, given the chunk size
FileSizes(chunk) == {0, chunk + 1}

\* lines typed at the prompt
PromptLines == {"", "y", "Ye", "YES", "n", "No", "X"}

Init ==
    /\ pc = "main"
    /\ args \in ArgSets
    /\ page \in SitePages
    /\ album = NoAlbum
    /\ err = "none" /\ formats = <<>> /\ songs = <<>> /\ net = <<>>
    /\ covers = <<>> /\ index = 0
    /\ line = "" /\ choice = "" /\ asked = 0 /\ answer = "none"
    /\ NoSong /\ NoTransfer

\* the run ends with an uncaught exception
Raise(e) == err' = e /\ pc' = "error"

\* line 537, KHAlbum.__init__ with a URL off the catalog prefix (line 310)
AlbumInitInvalid ==
    /\ pc = "main"
    /\ ~StartsWith(args.url, AlbumPrefix)
    /\ Raise("InvalidURL")
    /\ UNCHANGED <<page, album, formats, songs, net>>
    /\ UNCHANGED <<runVars, songVars, xferVars>>

\* KHAlbum.__init__ with the URL check placed after the fetch
AlbumInitFetch_mut_no_check ==
    /\ pc = "main"
    /\ net' = Append(net, Request("album", 0))
    /\ \E ok \in BOOLEAN :
        IF ~ok THEN Raise("Transport") /\ album' = album
        ELSE IF ~StartsWith(args.url, AlbumPrefix)
             THEN Raise("InvalidURL") /\ album' = album
        ELSE IF ~page.content THEN Raise("NoContent") /\ album' = album
        ELSE LET c == get_songlist_content(page)
             IN  IF c.err # "none" THEN Raise(c.err) /\ album' = album
                 ELSE /\ album' = [url |-> args.url, name |-> page.name,
                                   headers |-> c.headers, songlist |-> c.songlist,
                                   footers |-> c.footers, anchors |-> page.anchors]
                      /\ pc' = "check_format"
                      /\ err' = err
    /\ UNCHANGED <<page, formats, songs>>
    /\ UNCHANGED <<runVars, songVars, xferVars>>

\* line 537, KHAlbum.__init__ with a catalog URL: the page is fetched
\* (line 328), the content and the song list are looked up (lines 332-364)
AlbumInitFetch ==
    /\ pc = "main"
    /\ StartsWith(args.url, AlbumPrefix)
    /\ net' = Append(net, Request("album", 0))
    /\ \E ok \in BOOLEAN :
        IF ~ok THEN Raise("Transport") /\ album' = album
        ELSE IF ~page.content THEN Raise("NoContent") /\ album' = album
        ELSE LET c == get_songlist_content(page)
             IN  IF c.err # "none" THEN Raise(c.err) /\ album' = album
                 ELSE /\ album' = [url |-> args.url, name |-> page.name,
                                   headers |-> c.headers, songlist |-> c.songlist,
                                   footers |-> c.footers, anchors |-> page.anchors]
                      /\ pc' = "check_format"
                      /\ err' = err
    /\ UNCHANGED <<page, formats, songs>>
    /\ UNCHANGED <<runVars, songVars, xferVars>>

\* lines 540-541: the requested format, lowercased, must be offered
CheckFormat ==
    /\ pc = "check_format"
    /\ formats' = get_available_formats(album.headers)
    /\ IF \E i \in 1..Len(formats') : formats'[i] = lower(args.format)
       THEN pc' = "print" /\ err' = err
       ELSE Raise("FormatNotAvailable")
    /\ UNCHANGED <<page, album, songs, net>>
    /\ UNCHANGED <<runVars, songVars, xferVars>>

\* int() of every ':'-separated part of a duration text (line 449)
DurationOK(text) == text \in {"1:00", "0:30", "1:00:00"}

\* what KHAlbum.print raises: from get_songlist, from the duration of a
\* song (line 449), from the footer lookup of a format (line 457), from
\* get_covers (line 458); "none" when it prints
PrintError(a) ==
    LET sl == get_songlist(a)
        fs == get_available_formats(a.headers)
        t == IndexOf(a.footers, "Total:")
    IN  IF sl.err # "none" THEN sl.err
        ELSE IF \E k \in 1..Len(sl.songs) :
                    ~DurationOK(DictGet(sl.songs[k].attr, "duration"))
             THEN "ValueError"
        ELSE IF fs # <<>> /\ t = 0 THEN "ValueError"
        ELSE IF \E i \in 1..Len(fs) : (t - 1) + 2 + (i - 1) >= Len(a.footers)
             THEN "IndexError"
        ELSE get_covers(a).err

\* lines 544-554: the album and the chosen options are printed
PrintAlbum ==
    /\ pc = "print"
    /\ IF PrintError(album) = "none"
       THEN pc' = "prompt" /\ err' = err
       ELSE Raise(PrintError(album))
    /\ UNCHANGED <<page, album, formats, songs, net>>
    /\ UNCHANGED <<runVars, songVars, xferVars>>

\* query_yes_no without the default answer of line 110
query_yes_no_mut_no_default(c, default) ==
    IF c \in {"yes", "ye", "y"} THEN "yes"
    ELSE IF c \in {"no", "n"} THEN "no"
    ELSE "again"

\* query_yes_no's table 'valid' and its default (lines 91-113) on a
\* lowercased line: "yes", "no", or "again" when the loop asks again
query_yes_no(c, default) ==
    IF default # "none" /\ c = "" THEN default
    ELSE IF c \in {"yes", "ye", "y"} THEN "yes"
    ELSE IF c \in {"no", "n"} THEN "no"
    ELSE "again"

\* one turn of the loop of query_yes_no (lines 107-113), called at line 556
Prompt ==
    /\ pc = "prompt"
    /\ asked < MaxAsk
    /\ \E typed \in PromptLines :
        /\ line' = typed
        /\ choice' = lower(typed)
        /\ asked' = asked + 1
        /\ LET r == query_yes_no(choice', "yes")
           IN  IF r = "again"
               THEN pc' = "prompt" /\ answer' = answer
               ELSE pc' = "answered" /\ answer' = r
    /\ UNCHANGED <<err, page, album, formats, songs, net, args, covers, index>>
    /\ UNCHANGED <<songVars, xferVars>>

\* lines 556-557: the user declined, sys.exit(1)
Declined ==
    /\ pc = "answered"
    /\ answer = "no"
    /\ pc' = "exit"
    /\ line' = "" /\ choice' = "" /\ asked' = 0
    /\ UNCHANGED <<err, page, album, formats, songs, net, args, covers, index, answer>>
    /\ UNCHANGED <<songVars, xferVars>>

\* line 560: the user agreed, album.download is called
Confirmed ==
    /\ pc = "answered"
    /\ answer = "yes"
    /\ pc' = "download"
    /\ line' = "" /\ choice' = "" /\ asked' = 0
    /\ UNCHANGED <<err, page, album, formats, songs, net, args, covers, index, answer>>
    /\ UNCHANGED <<songVars, xferVars>>

\* the checks of lines 486-496 on n songs: the error raised, or "none"
RangeError(output, start, end, n) ==
    IF ~isdir(output) THEN "InvalidDirectory"
    ELSE IF Truthy(start) /\ (start.v < 0 \/ start.v > n) THEN "StartIndex"
    ELSE IF Truthy(end) /\ (end.v < 0 \/ end.v > n) THEN "EndIndex"
    ELSE IF Truthy(start) /\ Truthy(end) /\ start.v > end.v THEN "StartAfterEnd"
    ELSE "none"

\* KHAlbum.download with its checks placed inside the cover loop
DownloadValidate_mut_late ==
    /\ pc = "download"
    /\ LET cv == get_covers(album)
           sl == get_songlist(album)
           e == IF cv.err # "none" THEN cv.err
                ELSE IF sl.err # "none" THEN sl.err
                ELSE RangeError(args.output, args.start, args.end, Len(sl.songs))
       IN  /\ covers' = cv.covers
           /\ songs' = sl.songs
           /\ index' = 0
           /\ IF e # "none"
              THEN Raise(e) /\ net' = Append(net, Request("cover", 1))
              ELSE /\ pc' = IF args.covers THEN "covers" ELSE "tracks"
                   /\ err' = err
                   /\ net' = net
    /\ UNCHANGED <<page, album, formats, args, line, choice, asked, answer>>
    /\ UNCHANGED <<songVars, xferVars>>

\* KHAlbum.download up to its loops (lines 481-499): the covers and the
\* songs are extracted, the options are checked
DownloadValidate ==
    /\ pc = "download"
    /\ LET cv == get_covers(album)
           sl == get_songlist(album)
           e == IF cv.err # "none" THEN cv.err
                ELSE IF sl.err # "none" THEN sl.err
                ELSE RangeError(args.output, args.start, args.end, Len(sl.songs))
       IN  /\ covers' = cv.covers
           /\ songs' = sl.songs
           /\ index' = 0
           /\ IF e # "none"
              THEN Raise(e)
              ELSE /\ pc' = IF args.covers THEN "covers" ELSE "tracks"
                   /\ err' = err
    /\ UNCHANGED <<page, album, formats, net, args, line, choice, asked, answer>>
    /\ UNCHANGED <<songVars, xferVars>>

\* one turn of the cover loop (lines 500-502) up to the chunk loop of
\* download_file: the request is sent, the size is read, the file is opened
CoverDownload ==
    /\ pc = "covers"
    /\ index < Len(covers)
    /\ net' = Append(net, Request("cover", index + 1))
    /\ \E ok \in BOOLEAN :
        IF ~ok
        THEN Raise("Transport") /\ UNCHANGED <<xfer, progress, inflight>>
        ELSE \E size \in FileSizes(args.chunk) :
                /\ xfer' = Transfer("cover", index + 1, covers[index + 1], size,
                                    args.chunk, size)
                /\ progress' = <<>>
                /\ inflight' = inflight \cup {Request("cover", index + 1)}
                /\ pc' = "t_chunk"
                /\ err' = err
    /\ UNCHANGED <<page, album, formats, songs, pbar, files>>
    /\ UNCHANGED <<runVars, songVars>>

\* the cover loop left before the last cover
CoversDone_mut_early ==
    /\ pc = "covers"
    /\ pc' = "tracks"
    /\ index' = 0
    /\ UNCHANGED <<err, page, album, formats, songs, net>>
    /\ UNCHANGED <<args, covers, line, choice, asked, answer, songVars, xferVars>>

\* the cover loop is over (or dlcovers is false, line 499)
CoversDone ==
    /\ pc = "covers"
    /\ index >= Len(covers)
    /\ pc' = "tracks"
    /\ index' = 0
    /\ UNCHANGED <<err, page, album, formats, songs, net>>
    /\ UNCHANGED <<args, covers, line, choice, asked, answer, songVars, xferVars>>

\* line 507: the song at 0-based i is below the start index
BelowStart(i) == Truthy(args.start) /\ i + 1 < args.start.v

\* line 511 with >= in place of >
AboveEnd_mut_ge(i) == Truthy(args.end) /\ i + 1 >= args.end.v

\* line 511: the song at 0-based i is above the end index
AboveEnd(i) == Truthy(args.end) /\ i + 1 > args.end.v

\* lines 507-508: continue
TrackSkip ==
    /\ pc = "tracks"
    /\ index < Len(songs)
    /\ BelowStart(index)
    /\ index' = index + 1
    /\ UNCHANGED <<pc, err, page, album, formats, songs, net>>
    /\ UNCHANGED <<args, covers, line, choice, asked, answer, songVars, xferVars>>

\* the song loop ends: the list is exhausted, or line 512 breaks; line 520
TracksDone ==
    /\ pc = "tracks"
    /\ \/ index >= Len(songs)
       \/ index < Len(songs) /\ ~BelowStart(index) /\ AboveEnd(index)
    /\ pc' = "done"
    /\ UNCHANGED <<err, page, album, formats, songs, net>>
    /\ UNCHANGED <<runVars, songVars, xferVars>>

\* KHSong.download with line 292 skipping the song in place of raising
SongDownload_mut_skip ==
    /\ pc = "tracks"
    /\ index < Len(songs)
    /\ ~BelowStart(index)
    /\ ~AboveEnd(index)
    /\ fmt' = lower(args.format)
    /\ \E ok1 \in BOOLEAN :
        IF ~ok1
        THEN /\ Raise("Transport")
             /\ net' = Append(net, Request("detail", index + 1))
             /\ index' = index
             /\ UNCHANGED <<links, picked, xfer, progress, inflight>>
        ELSE \E hrefs \in DetailPages :
            /\ links' = get_download_links(hrefs)
            /\ picked' = PickLink(links', fmt')
            /\ IF picked' = 0
               THEN /\ pc' = "tracks" /\ err' = err
                    /\ index' = index + 1
                    /\ net' = Append(net, Request("detail", index + 1))
                    /\ UNCHANGED <<xfer, progress, inflight>>
               ELSE /\ net' = net \o <<Request("detail", index + 1),
                                       Request("song", index + 1)>>
                    /\ index' = index
                    /\ \E ok2 \in BOOLEAN :
                        IF ~ok2
                        THEN Raise("Transport") /\ UNCHANGED <<xfer, progress, inflight>>
                        ELSE \E size \in FileSizes(args.chunk) :
                            /\ xfer' = Transfer("song", index + 1, links'[picked'],
                                                size, args.chunk, size)
                            /\ progress' = <<>>
                            /\ inflight' = inflight \cup {Request("song", index + 1)}
                            /\ pc' = "t_chunk"
                            /\ err' = err
    /\ UNCHANGED <<page, album, formats, songs, pbar, files>>
    /\ UNCHANGED <<args, covers, line, choice, asked, answer>>

\* line 518, KHSong.download up to the chunk loop of download_file: the
\* detail page is fetched, a link is chosen, its request is sent
SongDownload ==
    /\ pc = "tracks"
    /\ index < Len(songs)
    /\ ~BelowStart(index)
    /\ ~AboveEnd(index)
    /\ fmt' = lower(args.format)
    /\ \E ok1 \in BOOLEAN :
        IF ~ok1
        THEN /\ Raise("Transport")
             /\ net' = Append(net, Request("detail", index + 1))
             /\ UNCHANGED <<links, picked, xfer, progress, inflight>>
        ELSE \E hrefs \in DetailPages :
            /\ links' = get_download_links(hrefs)
            /\ picked' = PickLink(links', fmt')
            /\ IF picked' = 0
               THEN /\ Raise("FormatNotFound")
                    /\ net' = Append(net, Request("detail", index + 1))
                    /\ UNCHANGED <<xfer, progress, inflight>>
               ELSE /\ net' = net \o <<Request("detail", index + 1),
                                       Request("song", index + 1)>>
                    /\ \E ok2 \in BOOLEAN :
                        IF ~ok2
                        THEN Raise("Transport") /\ UNCHANGED <<xfer, progress, inflight>>
                        ELSE \E size \in FileSizes(args.chunk) :
                            /\ xfer' = Transfer("song", index + 1, links'[picked'],
                                                size, args.chunk, size)
                            /\ progress' = <<>>
                            /\ inflight' = inflight \cup {Request("song", index + 1)}
                            /\ pc' = "t_chunk"
                            /\ err' = err
    /\ UNCHANGED <<page, album, formats, songs, pbar, files>>
    /\ UNCHANGED <<runVars>>

\* the transfer breaks (timeout, connection lost): the exception leaves the
\* with-blocks of download_file, which close the response
TransferFail ==
    /\ pc = "t_chunk"
    /\ xfer.kind \in {"cover", "song"}
    /\ Raise("Transport")
    /\ inflight' = inflight \ {Request(xfer.kind, xfer.pos)}
    /\ UNCHANGED <<page, album, formats, songs, net, xfer, pbar, progress, files>>
    /\ UNCHANGED <<runVars, songVars>>

Next ==
    \/ AlbumInitInvalid
    \/ AlbumInitFetch
    \/ CheckFormat
    \/ PrintAlbum
    \/ Prompt
    \/ Declined
    \/ Confirmed
    \/ DownloadValidate
    \/ CoverDownload
    \/ CoversDone
    \/ TrackSkip
    \/ TracksDone
    \/ SongDownload
    \/ DownloadChunk
    \/ DownloadFinish
    \/ TransferFail

Spec == Init /\ [][Next]_vars


(***************************************************************************)
(* Claims about a whole run (checked under Spec).                          *)
(***************************************************************************)
IsTrackReq(r) == r.kind \in {"detail", "song"}

IsCoverReq(r) == r.kind = "cover"

IsSongReq(r) == r.kind = "song"

\* the requests for detail pages and track files so far, in order
TrackReqs == SelectSeq(net, IsTrackReq)

\* the requests for covers so far, in order
CoverReqs == SelectSeq(net, IsCoverReq)

\* the checks of album.download have run (it raised, or it is in its loops)
DownloadCalled == answer = "yes" /\ pc \notin {"answered", "download"}

\* start or end is present and outside 1..n, or both are present and
\* start > end
InvalidRange(n) ==
    \/ (~args.start.none) /\ (args.start.v < 1 \/ args.start.v > n)
    \/ (~args.end.none) /\ (args.end.v < 1 \/ args.end.v > n)
    \/ (~args.start.none) /\ (~args.end.none) /\ args.start.v > args.end.v

\* C1 (as stated): an invalid range makes album.download raise before it
\* issues any request (the album page was fetched before the call)
C1_Original ==
    (DownloadCalled /\ InvalidRange(Len(songs))) =>
        /\ pc = "error"
        /\ err \in {"InvalidDirectory", "StartIndex", "EndIndex", "StartAfterEnd"}
        /\ net = <<Request("album", 0)>>

\* the window of a valid range: first and last 1-based position
Lo == IF args.start.none THEN 1 ELSE args.start.v

Hi == IF args.end.none THEN Len(songs) ELSE args.end.v

\* detail page and file of every position from lo to hi, in order
RECURSIVE ExpectedReqs(_, _)
ExpectedReqs(lo, hi) ==
    IF lo > hi THEN <<>>
    ELSE <<Request("detail", lo), Request("song", lo)>> \o ExpectedReqs(lo + 1, hi)

IsPrefix(s, t) == Len(s) <= Len(t) /\ SubSeq(t, 1, Len(s)) = s

\* C2: with a valid window, the requests for tracks are at every moment the
\* first ones of: detail page and file of position lo, then of lo+1, ... up
\* to hi, so no position outside the window is ever requested; when the run
\* ends without error they are all of them, and the track files written are
\* those of lo..hi, once each, in order.
C2_WindowInOrder ==
    (DownloadCalled /\ ~InvalidRange(Len(songs))) =>
        /\ IsPrefix(TrackReqs, ExpectedReqs(Lo, Hi))
        /\ IsPrefix(SelectSeq(files, IsSongReq),
                    SelectSeq(ExpectedReqs(Lo, Hi), IsSongReq))
        /\ (pc = "done" =>
                /\ TrackReqs = ExpectedReqs(Lo, Hi)
                /\ SelectSeq(files, IsSongReq)
                       = SelectSeq(ExpectedReqs(Lo, Hi), IsSongReq))

\* C2 witness: start=2, end=2 over three tracks: track 2 alone was fetched
C2_Witness ==
    /\ pc = "done"
    /\ Len(songs) = 3
    /\ args.start = Some(2)
    /\ args.end = Some(2)
    /\ TrackReqs = <<Request("detail", 2), Request("song", 2)>>
    /\ SelectSeq(files, IsSongReq) = <<Request("song", 2)>>

\* C3: at most one transfer is open; without --covers no cover is ever
\* requested; with it the covers are requested in order, once each, never
\* after a request for a track, and once a track has been requested (or the
\* run is done) every cover has been written, once, whatever the window.
C3_CoversFirst ==
    /\ Cardinality(inflight) <= 1
    /\ (~args.covers => CoverReqs = <<>>)
    /\ IsPrefix(CoverReqs, [i \in 1..Len(covers) |-> Request("cover", i)])
    /\ \A i \in 1..Len(net) : \A j \in i..Len(net) :
            ~(IsTrackReq(net[i]) /\ IsCoverReq(net[j]))
    /\ (args.covers /\ DownloadCalled /\ (TrackReqs # <<>> \/ pc = "done") =>
            SelectSeq(files, IsCoverReq)
                = [i \in 1..Len(covers) |-> Request("cover", i)])

\* C3 witness: two covers written and then a track, with a window that
\* leaves track 1 out
C3_Witness ==
    /\ pc = "done"
    /\ args.covers
    /\ args.start = Some(2)
    /\ Len(covers) = 2
    /\ files = <<Request("cover", 1), Request("cover", 2), Request("song", 2)>>

\* C8: a URL off the catalog prefix ends the run with the invalid-URL error
\* and no request; the album page is requested only for URLs under it.
C8_InvalidURLBeforeNetwork ==
    /\ (~StartsWith(args.url, AlbumPrefix) =>
            /\ net = <<>>
            /\ pc = "main" \/ (pc = "error" /\ err = "InvalidURL"))
    /\ (net # <<>> => StartsWith(args.url, AlbumPrefix))
    /\ (err = "InvalidURL" => net = <<>>)

\* C8 witness: the run has ended on the invalid-URL error
C8_Witness ==
    /\ pc = "error"
    /\ err = "InvalidURL"
    /\ args.url \in BadURLs

ValidationErrors ==
    {"InvalidURL", "FormatNotAvailable", "InvalidDirectory", "StartIndex",
     "EndIndex", "StartAfterEnd"}

\* C9 (amended): a validation failure ends the run, nothing follows it; the
\* invalid URL is raised before any request, every other one after the
\* album page fetch and nothing else: before any request for a cover, a
\* detail page or a track.
C9_ValidationBeforeDownloads ==
    err \in ValidationErrors =>
        /\ pc = "error"
        /\ ~ENABLED Next
        /\ (err = "InvalidURL" => net = <<>>)
        /\ (err # "InvalidURL" => net = <<Request("album", 0)>>)
        /\ files = <<>>

\* C9 witness: an out-of-range start index was refused after the prompt
C9_Witness ==
    /\ pc = "error"
    /\ err = "StartIndex"
    /\ answer = "yes"
    /\ net = <<Request("album", 0)>>

\* C9 (as stated): every validation failure is raised before any request of
\* the run, the album page fetch included
C9_Original ==
    err \in ValidationErrors => (pc = "error" /\ net = <<>>)

\* C10 (amended): the prompt resolves to yes on an empty line and on
\* y / ye / yes, to no on n / no, ignoring case, and asks again on anything
\* else; no cover or track is requested unless it resolved to yes, and after
\* a no the run ends with no download.
C10_PromptGatesDownload ==
    /\ (pc = "answered" =>
            /\ answer = "yes" <=> lower(line) \in {"", "y", "ye", "yes"}
            /\ answer = "no" <=> lower(line) \in {"n", "no"})
    /\ (pc = "prompt" /\ asked > 0 =>
            /\ lower(line) \notin {"", "y", "ye", "yes", "n", "no"}
            /\ answer = "none")
    /\ (CoverReqs # <<>> \/ TrackReqs # <<>> \/ files # <<>> => answer = "yes")
    /\ (answer = "no" =>
            /\ pc \in {"answered", "exit"}
            /\ net = <<Request("album", 0)>>
            /\ files = <<>>)
    /\ (pc = "exit" => answer = "no" /\ ~ENABLED Next)
    /\ (pc \in {"download", "covers", "tracks", "t_chunk", "done"} => answer = "yes")

\* C10 witness: "Ye" was typed and taken for yes
C10_Witness ==
    /\ pc = "answered"
    /\ line = "Ye"
    /\ answer = "yes"

\* C10 (as stated): yes on an empty line and on y / yes only, no on n / no,
\* anything else asks again
C10_Original ==
    /\ (pc = "answered" =>
            /\ answer = "yes" <=> lower(line) \in {"", "y", "yes"}
            /\ answer = "no" <=> lower(line) \in {"n", "no"})
    /\ (CoverReqs # <<>> \/ TrackReqs # <<>> \/ files # <<>> => answer = "yes")
    /\ (answer = "no" => pc \in {"answered", "exit"} /\ files = <<>>)

IsDownloadReq(r) == r.kind \in {"cover", "song"}

\* positions before p that the loop of album.download does not skip
DownloadedBefore(p) ==
    SelectSeq([k \in 1..(p - 1) |-> Request("song", k)],
              LAMBDA r : ~BelowStart(r.pos - 1))

\* C11: a track p inside the window whose detail page has no link with the
\* requested extension ends the run on the format-unavailable error: the
\* detail page of p is the last request of the run and was requested once;
\* no file of p is requested or written, nothing is requested for a
\* position after p, every cover and every track before p that was
\* requested is still written, and no step follows.  A fetched detail page
\* is followed by the request for its file or by this error, never by the
\* next track.
C11_FormatNotFoundAborts ==
    /\ (err = "FormatNotFound" =>
            /\ pc = "error"
            /\ ~ENABLED Next
            /\ index < Len(songs)
            /\ ~BelowStart(index) /\ ~AboveEnd(index)
            /\ fmt = lower(args.format)
            /\ \A i \in 1..Len(links) : splitext_ext(links[i]) # fmt
            /\ net[Len(net)] = Request("detail", index + 1)
            /\ Cardinality({i \in 1..Len(net) :
                               net[i] = Request("detail", index + 1)}) = 1
            /\ \A i \in 1..Len(net) :
                    /\ net[i] # Request("song", index + 1)
                    /\ IsTrackReq(net[i]) => net[i].pos <= index + 1
            /\ \A i \in 1..Len(files) : files[i] # Request("song", index + 1)
            /\ inflight = {}
            /\ files = SelectSeq(net, IsDownloadReq)
            /\ SelectSeq(files, IsSongReq) = DownloadedBefore(index + 1)
            /\ (args.covers =>
                    SelectSeq(files, IsCoverReq)
                        = [i \in 1..Len(covers) |-> Request("cover", i)]))
    /\ (net # <<>> /\ net[Len(net)].kind = "detail" =>
            /\ pc = "error"
            /\ err \in {"FormatNotFound", "Transport"})

\* C11 witness: a cover and track 1 were written, track 2 of three has no
\* link in the requested format, and the run ended there
C11_Witness ==
    /\ pc = "error"
    /\ err = "FormatNotFound"
    /\ Len(songs) = 3
    /\ index = 1
    /\ net = <<Request("album", 0), Request("cover", 1), Request("detail", 1),
               Request("song", 1), Request("detail", 2)>>
    /\ files = <<Request("cover", 1), Request("song", 1)>>

=============================================================================
